---- MODULE Spec2Model ----
(***************************************************************************)
(* Model of the Wisol SIGFOX driver (Wisol.cpp): the byte exchange of      *)
(* sendBuffer, the dispatchers built on it (sendCommand, sendMessage,      *)
(* sendString, getID, begin) and the duty-cycle check isReady.             *)
(*                                                                         *)
(* Strings are sequences of byte values (0..255).  Values of type          *)
(* unsigned long (millis(), lastSend, startTime) are 32 bits wide and are  *)
(* kept as a pair <<high 16 bits, low 16 bits>>, so that the unsigned      *)
(* subtraction of the code wraps exactly as it does on the device.         *)
(***************************************************************************)
EXTENDS Integers, Sequences, FiniteSets, TLC

(***************************************************************************)
(* Bounds of the model.                                                    *)
(***************************************************************************)
\* Top-level calls made on the driver in one run.
MaxCalls == 2
\* During one direct call of sendBuffer: the non-terminator bytes and the
\* terminator bytes the channel delivers, and the short clock steps the loop
\* observes (between two iterations, or between two successive reads of
\* millis()).
MaxResp == 2
MaxTerm == 2
MaxTicks == 1
\* During one call of a dispatcher (sendCommand, sendMessage, sendString,
\* getID, begin): the non-terminator and the terminator bytes delivered.
CallResp == 1
CallTerm == 2
\* During one direct call of sendBuffer with a response of many lines: the
\* terminator bytes and the other bytes delivered.
ManyTerm == 7
ManyResp == 1
\* During one direct call of sendBuffer with a long response, for the log:
\* the bytes of the response and the terminator bytes delivered.
LogResp == 9
LogTerm == 6
\* Calls of echoOn, echoOff and setEchoPort made in one run.
EchoCalls == 4
\* The longest byte span handed to toHex(char *, int).
MaxSpan == 3

(***************************************************************************)
(* Program constants.                                                      *)
(***************************************************************************)
END_OF_RESPONSE == 13
markerPosMax == 5
CMD_SEND_MESSAGE == <<65, 84, 36, 83, 70, 61>>      \* "AT$SF="
CMD_GET_ID == <<65, 84, 36, 73, 61, 49, 48>>        \* "AT$I=10"
CMD_GET_PAC == <<65, 84, 36, 73, 61, 49, 49>>       \* "AT$I=11"
CMD_END == <<13>>                                   \* "\r"
\* delay(200) after serialPort->begin, delay(10) after each write,
\* delay(2000) at each round of begin().
SettleDelay == 200
WriteDelay == 10
BeginDelay == 2000
BeginRetries == 5
\* isReady: "allow sending every 2 seconds".
SendFloor == 2 * 1000
\* The command timeout handed to sendBuffer by sendCommand and sendMessage
\* (declared in SIGFOX.h).
WISOL_COMMAND_TIMEOUT == 2000

(***************************************************************************)
(* 32-bit unsigned arithmetic on <<high, low>> pairs.                      *)
(***************************************************************************)
W16 == 256 * 256
U32(n) == <<(n \div W16) % W16, n % W16>>
U32Add(a, n) ==
    LET s == a[2] + (n % W16)
    IN  <<(a[1] + (n \div W16) + (s \div W16)) % W16, s % W16>>
U32Sub(a, b) ==
    LET l == a[2] - b[2]
        borrow == IF l < 0 THEN 1 ELSE 0
    IN  <<(a[1] - b[1] - borrow + 2 * W16) % W16, (l + W16) % W16>>
U32Gt(a, b) == a[1] > b[1] \/ (a[1] = b[1] /\ a[2] > b[2])
U32Le(a, b) == ~U32Gt(a, b)
U32Zero == <<0, 0>>

(***************************************************************************)
(* Inputs of the calls.                                                    *)
(***************************************************************************)
\* Values of millis() when the driver is constructed: power-up, and shortly
\* before the 32-bit counter wraps.
ClockInits == {U32Zero, <<W16 - 1, W16 - 300>>}
\* Bytes other than the terminator that the channel may deliver: "O", NUL.
RxBytes == {79, 0}
\* Buffers, timeouts and expected marker counts of direct sendBuffer calls.
Buffers == {<< >>, <<65, 13>>}
Timeouts == {0, 5}
ExpectedCounts == 0 .. (MaxTerm + 1)
\* What the caller's variables may hold before a call.
PriorResponses == {<< >>, <<88>>}
PriorCounts == {0, 1}
\* Commands handed to sendCommand.
Commands == {<<65, 84, 13>>}
\* Hex payloads handed to sendMessage.
Payloads == {<<52, 56, 54, 57>>}
\* Texts handed to sendString: "Hi", twelve characters, thirteen characters.
Texts == {<<72, 105>>,
          <<1, 10, 15, 16, 65, 97, 127, 128, 200, 255, 48, 57>>,
          <<65, 66, 67, 68, 69, 70, 71, 72, 73, 74, 75, 76, 77>>}
\* What the bytes that follow markerPos in memory may hold.
BeyondValues == {0, 10}
\* The output ports: the null port of line 29, and the ports an application
\* may hand to setEchoPort.
nullPort == "nullPort"
RealPorts == {"Serial", "Serial1"}
\* Time that passes between two calls.
IdleGaps == {1999, 2000, 2001}
\* Byte spans handed to toHex(char *, int): every span of at most one byte,
\* and the longer spans made of the bytes at the edges of the digit ranges.
EdgeBytes == {0, 9, 10, 15, 16, 159, 160, 255}
Spans ==
    UNION {[1 .. n -> 0 .. 255] : n \in 0 .. 1}
      \cup UNION {[1 .. n -> EdgeBytes] : n \in 2 .. MaxSpan}

(***************************************************************************)
(* State.                                                                  *)
(***************************************************************************)
VARIABLES
    \* The driver and the file's statics.
    useEmulator,          \* Wisol::useEmulator
    device,               \* Wisol::device
    lastSend,             \* Wisol::lastSend
    markers,              \* static uint8_t markers
    markerPos,            \* static uint8_t markerPos[markerPosMax]
    \* The environment: the clock and the serial channel.
    clock,                \* what millis() returns now
    portOpen,             \* between serialPort->begin and serialPort->end
    tx,                   \* bytes written to the channel during this call
    polled,               \* the channel was asked for input during this call
    nOpen, nClose,        \* serialPort->begin / ->end during this call
    quota,                \* what the environment may still do during this call
    \* The running call.
    pc,                   \* "idle", "call", "loop", "recv", "end", "ret", "done"
    op,                   \* the top-level operation
    stage,                \* getID: 1 = ID query, 2 = PAC query
    tries,                \* begin: the loop counter i
    buffer, timeout, expectedMarkerCount,   \* sendBuffer's arguments
    amcRef,               \* what actualMarkerCount refers to
    callerAmc,            \* the caller's own marker-count variable
    response,             \* the String passed as sendBuffer's response
    i, startTime,         \* sendBuffer's locals
    sbRet,                \* what sendBuffer returned
    ret,                  \* what the top-level call returned
    result,               \* the String passed as sendCommand's result
    str,                  \* the text handed to sendString
    payload,              \* the payload handed to sendMessage
    id, pac,              \* the Strings passed to getID
    rdy,                  \* the evaluation of isReady made by this call
    \* History kept for the properties.
    rxSeq,                \* bytes read from the channel during this exchange
    lastTx,               \* millis() at the last write (at loop start if none)
    calls,                \* top-level calls made
    prevOk,               \* <<a sendMessage has succeeded, millis() when it did>>
    sinceOk,              \* at call entry: <<one had succeeded, time since then>>
    entryDevice,          \* at call entry: the device identifier
    \* What logBuffer did with the response of the exchange.
    logOut,               \* the bytes it wrote to echoPort after the prefix
    posReads,             \* the indexes of markerPos it read
    \* The hex conversions.
    span,                 \* the bytes handed to toHex(char *, int)
    hexText,              \* the String it returned
    decoded,              \* the bytes decoded from that String
    decodedUpper,         \* the bytes decoded from its uppercase form
    \* The echo output.
    echoPort,             \* Wisol::echoPort
    lastEchoPort,         \* Wisol::lastEchoPort
    portBeforeOff         \* the real port echoOff last turned off ("none" if none)

vars == <<useEmulator, device, lastSend, markers, markerPos, clock, portOpen, tx,
          polled, nOpen, nClose, quota, pc, op, stage, tries, buffer, timeout,
          expectedMarkerCount, amcRef, callerAmc, response, i, startTime, sbRet,
          ret, result, str, payload, id, pac, rdy, rxSeq, lastTx, calls,
          prevOk, sinceOk, entryDevice, logOut, posReads, span, hexText, decoded,
          decodedUpper, echoPort, lastEchoPort, portBeforeOff>>

\* The variables of the driver object and the statics.
drvVars == <<useEmulator, device, lastSend, markers, markerPos>>
\* The serial channel.
chanVars == <<portOpen, tx, polled, nOpen, nClose>>
\* sendBuffer's frame.
sbVars == <<buffer, timeout, expectedMarkerCount, amcRef, callerAmc, response, i,
            startTime, sbRet>>
\* The top-level call's frame.
callVars == <<op, stage, tries, ret, result, str, payload, id, pac, rdy>>
\* History.
histVars == <<rxSeq, lastTx, calls, prevOk, sinceOk>>

\* The log of the exchange, the hex conversions.
logVars == <<logOut, posReads>>
hexVars == <<span, hexText, decoded, decodedUpper>>
\* What the steps of an exchange, before its end, leave alone.
echoVars == <<echoPort, lastEchoPort, portBeforeOff>>
restVars == <<entryDevice, logVars, hexVars, echoVars>>

\* The value of the variable bound to sendBuffer's actualMarkerCount.
Amc == IF amcRef = "markers" THEN markers ELSE callerAmc

Idle == pc \in {"idle", "done"}
InExchange == pc \in {"loop", "recv", "end"}
NoReady == [called |-> FALSE, res |-> FALSE, now |-> U32Zero, last |-> U32Zero]

\* The driver after construction (300-317).  The constructor does not assign
\* lastSend; a driver object with static storage starts with 0, which is also
\* what begin() sets.
InitDriver ==
    /\ useEmulator \in BOOLEAN
    /\ device = <<68>>
    /\ lastSend = U32Zero
    /\ markers = 0
    /\ markerPos = [k \in 0 .. (markerPosMax - 1) |-> 0]
    /\ clock \in ClockInits
    /\ portOpen = FALSE /\ tx = << >> /\ polled = FALSE /\ nOpen = 0 /\ nClose = 0
    /\ quota = [bytes |-> 0, terms |-> 0, ticks |-> 0, duplex |-> FALSE, rx |-> {}]
    /\ pc = "idle" /\ op = "none" /\ stage = 0 /\ tries = 0
    /\ buffer = << >> /\ timeout = 0 /\ expectedMarkerCount = 0
    /\ amcRef = "markers" /\ callerAmc = 0 /\ response = << >>
    /\ i = 0 /\ startTime = U32Zero /\ sbRet = FALSE
    /\ ret = FALSE /\ result = << >> /\ str = << >> /\ payload = << >>
    /\ id = << >> /\ pac = << >>
    /\ rdy = NoReady
    /\ rxSeq = << >> /\ lastTx = U32Zero /\ calls = 0
    /\ prevOk = <<FALSE, U32Zero>> /\ sinceOk = <<FALSE, U32Zero>>
    /\ entryDevice = <<68>>
    /\ logOut = << >> /\ posReads = {}
    /\ hexText = << >> /\ decoded = << >> /\ decodedUpper = << >>
    /\ echoPort \in {"Serial", nullPort}
    /\ lastEchoPort = "Serial"
    /\ portBeforeOff = "none"

\* A driver constructed with echo.
Init == InitDriver /\ span = << >> /\ echoPort = "Serial"

(***************************************************************************)
(* sendBuffer (Wisol.cpp 36-119).                                          *)
(***************************************************************************)
\* Mutant: the timeout test never fires.
TimedOut_Never(currentTime, start, t) == FALSE

\* Line 81: currentTime - startTime > timeout, in unsigned long.
TimedOut(currentTime, start, t) == U32Gt(U32Sub(currentTime, start), U32(t))

\* Mutant: the final test is off by one.
SendBufferResult_OffByOne(actual, expected) == ~(actual <= expected)

\* Lines 108-118: the exchange fails when fewer markers were seen than expected.
SendBufferResult(actual, expected) == ~(actual < expected)

\* Line 92: all the expected markers were seen.
SeenAllMarkers(actual, expected) == actual >= expected

\* Mutant: the position is stored without the test of line 89.
RecordMarker_Unguarded(pos, actual, len) ==
    [k \in (DOMAIN pos) \cup {actual} |-> IF k = actual THEN len % 256 ELSE pos[k]]

\* Lines 89-91: the bookkeeping of one terminator: the position is remembered
\* while the array has room, the count always grows (uint8_t).
RecordMarker(pos, actual, len) ==
    IF actual < markerPosMax THEN [pos EXCEPT ![actual] = len % 256] ELSE pos
\* Mutant: a terminator is not counted.
CountMarker_Skip(actual) == actual

CountMarker(actual) == (actual + 1) % 256

\* Mutant: the timer runs from the start of the loop.
RestartTimer_Never(start, now) == start

\* Line 77: the timer is restarted after each byte written.
RestartTimer(start, now) == now

\* Lines 43-61: the entry of sendBuffer.  The response is cleared; in emulator
\* mode the call returns true at once, and actualMarkerCount is left as it was.
SB_Enter ==
    /\ UNCHANGED restVars
    /\ pc = "call"
    /\ response' = << >>
    /\ IF useEmulator
       THEN /\ sbRet' = TRUE
            /\ pc' = "ret"
            /\ UNCHANGED <<markers, callerAmc, clock, chanVars, i, startTime,
                           rxSeq, lastTx>>
       ELSE /\ IF amcRef = "markers"
               THEN markers' = 0 /\ UNCHANGED callerAmc
               ELSE callerAmc' = 0 /\ UNCHANGED markers
            /\ portOpen' = TRUE
            /\ nOpen' = nOpen + 1
            /\ clock' = U32Add(clock, SettleDelay)
            /\ startTime' = clock'
            /\ i' = 0
            /\ pc' = "loop"
            /\ rxSeq' = << >>
            /\ lastTx' = clock'
            /\ UNCHANGED <<tx, polled, nClose, sbRet>>
    /\ UNCHANGED <<useEmulator, device, lastSend, markerPos, quota, buffer,
                   timeout, expectedMarkerCount, amcRef, callVars, calls, prevOk,
                   sinceOk>>

\* Lines 66-81 when bytes remain: write one byte, wait, restart the timer, then
\* read the clock again for the timeout test.
SB_Write ==
    /\ UNCHANGED restVars
    /\ pc = "loop"
    /\ i < Len(buffer)
    /\ \E gap \in {0} \cup (IF quota.ticks > 0 THEN {1} ELSE {}) :
         /\ tx' = Append(tx, buffer[i + 1])
         /\ i' = i + 1
         /\ startTime' = RestartTimer(startTime, U32Add(clock, WriteDelay))
         /\ clock' = U32Add(U32Add(clock, WriteDelay), gap)
         /\ quota' = [quota EXCEPT !.ticks = @ - gap]
         /\ pc' = IF TimedOut(clock', startTime', timeout) THEN "end" ELSE "recv"
    /\ lastTx' = clock
    /\ UNCHANGED <<drvVars, portOpen, polled, nOpen, nClose, buffer, timeout,
                   expectedMarkerCount, amcRef, callerAmc, response, sbRet,
                   callVars, rxSeq, calls, prevOk, sinceOk>>

\* Lines 66, 80-81 when the whole buffer has been written.
SB_NoWrite ==
    /\ UNCHANGED restVars
    /\ pc = "loop"
    /\ ~(i < Len(buffer))
    /\ pc' = IF TimedOut(clock, startTime, timeout) THEN "end" ELSE "recv"
    /\ UNCHANGED <<drvVars, clock, chanVars, quota, sbVars, callVars, histVars>>

\* Time passing between two iterations of the loop: a short step (one
\* millisecond, or exactly the timeout), or, once the buffer has been written,
\* a wait of more than the timeout.  Once the timeout has been exceeded
\* nothing more is to be learnt from the clock.
Tick ==
    /\ UNCHANGED restVars
    /\ pc = "loop"
    /\ U32Le(U32Sub(clock, startTime), U32(timeout))
    /\ \/ /\ quota.ticks > 0
          /\ \E d \in {1, timeout} \ {0} : clock' = U32Add(clock, d)
          /\ quota' = [quota EXCEPT !.ticks = @ - 1]
       \/ /\ i = Len(buffer)
          /\ clock' = U32Add(clock, timeout + 1)
          /\ UNCHANGED quota
    /\ UNCHANGED <<drvVars, chanVars, pc, sbVars, callVars, histVars>>

\* What the channel hands to one poll: nothing (available() is 0), a failed
\* read (read() is -1), or a byte.  A modem that is not duplex answers a
\* command only once the whole of it has been written.
NoData == 0 - 2
ReadFail == 0 - 1
RxInputs ==
    {NoData, ReadFail}
      \cup (IF quota.duplex \/ i = Len(buffer)
            THEN (IF quota.bytes > 0 THEN quota.rx ELSE {})
                   \cup (IF quota.terms > 0 THEN {END_OF_RESPONSE} ELSE {})
            ELSE {})

\* Line 95: response.concat(String((char) rxChar)).  String(char) builds the
\* String from the C string {c, 0}, which is empty when c is NUL, and the
\* concatenation of an empty String adds nothing.
ConcatChar(data, rxChar) ==
    IF rxChar % 256 = 0 THEN data ELSE Append(data, rxChar % 256)

\* Lines 84-97: one poll of the channel.
SB_Receive ==
    /\ UNCHANGED restVars
    /\ pc = "recv"
    /\ polled' = TRUE
    /\ \E rxChar \in RxInputs :
         IF rxChar \in {NoData, ReadFail}
         THEN /\ pc' = "loop"
              /\ UNCHANGED <<markers, markerPos, callerAmc, response, rxSeq, quota>>
         ELSE /\ rxSeq' = Append(rxSeq, rxChar)
              /\ IF rxChar = END_OF_RESPONSE
                 THEN /\ markerPos' = RecordMarker(markerPos, Amc, Len(response))
                      /\ IF amcRef = "markers"
                         THEN markers' = CountMarker(markers) /\ UNCHANGED callerAmc
                         ELSE callerAmc' = CountMarker(callerAmc) /\ UNCHANGED markers
                      /\ pc' = IF SeenAllMarkers(CountMarker(Amc), expectedMarkerCount)
                               THEN "end" ELSE "loop"
                      /\ quota' = [quota EXCEPT !.terms = @ - 1]
                      /\ UNCHANGED response
                 ELSE /\ response' = ConcatChar(response, rxChar)
                      /\ pc' = "loop"
                      /\ quota' = [quota EXCEPT !.bytes = @ - 1]
                      /\ UNCHANGED <<markers, markerPos, callerAmc>>
    /\ UNCHANGED <<useEmulator, device, lastSend, clock, portOpen, tx, nOpen,
                   nClose, buffer, timeout, expectedMarkerCount, amcRef, i,
                   startTime, sbRet, callVars, lastTx, calls, prevOk, sinceOk>>

\* Line 562: "0123456789abcdef".
nibbleToHex == <<48, 49, 50, 51, 52, 53, 54, 55, 56, 57, 97, 98, 99, 100, 101, 102>>

\* Lines 572-574 and 581-583 of logBuffer: "0x", then the two hex digits of
\* the terminator.
MarkerText ==
    <<48, 120, nibbleToHex[(END_OF_RESPONSE \div 16) + 1],
      nibbleToHex[(END_OF_RESPONSE % 16) + 1]>>

\* buffer[k] of a C string: at k = strlen(buffer) it is the NUL that ends it.
CharAt(buf, k) == IF k < Len(buf) THEN buf[k + 1] ELSE 0

\* markerPos[m] as logBuffer reads it: beyond the array it finds whatever
\* follows the array in memory.
PosAt(pos, beyond, m) ==
    IF m < markerPosMax THEN pos[m]
    ELSE beyond[IF m = markerPosMax THEN 1 ELSE 2]

\* logBuffer (564-587) from i and m on: the test of lines 571 and 580 reads
\* markerPos[m] when m < markerCount; the loop writes two chars per round.
RECURSIVE LogLoop(_, _, _, _, _, _, _, _)
LogLoop(buf, pos, beyond, markerCount, k, m, out, reads) ==
    LET test == m < markerCount
        hit == test /\ PosAt(pos, beyond, m) = k
        reads1 == IF test THEN reads \cup {m} ELSE reads
        out1 == IF hit THEN out \o MarkerText ELSE out
        m1 == IF hit THEN m + 1 ELSE m
    IN  IF k < Len(buf)
        THEN LogLoop(buf, pos, beyond, markerCount, k + 2, m1,
                     out1 \o <<CharAt(buf, k), CharAt(buf, k + 1)>>, reads1)
        ELSE [out |-> out1 \o <<10>>, reads |-> reads1]

logBuffer(buf, pos, beyond, markerCount) ==
    LogLoop(buf, pos, beyond, markerCount, 0, 0, << >>, {})

\* Mutant: the channel is closed only when all the markers were seen.
ClosesPort_OnSuccess(actual, expected) == actual >= expected

\* Line 100: both breaks of the loop lead to serialPort->end().
ClosesPort(actual, expected) == TRUE

\* Lines 100-118: close the channel, log the response with its markers
\* (the log of the buffer sent has no markers), and report.
SB_Exit ==
    /\ UNCHANGED <<entryDevice, hexVars, echoVars>>
    /\ pc = "end"
    /\ \E beyond \in [1 .. 2 -> BeyondValues] :
         LET lg == logBuffer(response, markerPos, beyond, Amc)
         IN  logOut' = lg.out /\ posReads' = lg.reads
    /\ IF ClosesPort(Amc, expectedMarkerCount)
       THEN portOpen' = FALSE /\ nClose' = nClose + 1
       ELSE UNCHANGED <<portOpen, nClose>>
    /\ sbRet' = SendBufferResult(Amc, expectedMarkerCount)
    /\ pc' = "ret"
    /\ UNCHANGED <<drvVars, clock, tx, polled, nOpen, quota, buffer, timeout,
                   expectedMarkerCount, amcRef, callerAmc, response, i, startTime,
                   callVars, histVars>>

(***************************************************************************)
(* Hex encoding (Wisol.cpp 532-539, 562).                                  *)
(***************************************************************************)
\* String(b, 16) of the Arduino core: the digits of b in base 16, lowercase,
\* without leading zeros ("0" for 0).
StringBase16(b) ==
    IF b < 16 THEN <<nibbleToHex[b + 1]>>
    ELSE <<nibbleToHex[(b \div 16) + 1], nibbleToHex[(b % 16) + 1]>>

\* Mutant: the leading zero of a byte below 16 is not written.
ToHexChar_NoPad(c) == StringBase16(c % 256)

\* toHex(char c): the byte of c, zero-padded to two digits.
ToHexChar(c) ==
    LET b == c % 256
    IN  (IF b <= 15 THEN <<48>> ELSE << >>) \o StringBase16(b)

\* Lines 386-390 of sendString: the payload is the hex of every character.
RECURSIVE EncodeString(_)
EncodeString(s) ==
    IF s = << >> THEN << >>
    ELSE ToHexChar(Head(s)) \o EncodeString(Tail(s))

\* toHex(char *c, int length) (541-550): the same for each of length bytes.
RECURSIVE ToHexSpan(_, _)
ToHexSpan(c, length) ==
    IF length = 0 THEN << >>
    ELSE ToHexSpan(c, length - 1)
           \o (IF c[length] <= 15 THEN <<48>> ELSE << >>)
           \o StringBase16(c[length])

\* Mutant: only lowercase letters are digits.
HexDigitToDecimal_LowerOnly(ch) ==
    IF ch >= 48 /\ ch <= 57 THEN (ch - 48) % 256
    ELSE IF ch >= 97 /\ ch <= 122 THEN (ch - 97 + 10) % 256
    ELSE 0

\* hexDigitToDecimal (552-559): '0'..'9', 'a'..'z', 'A'..'Z'; 0 for the rest.
HexDigitToDecimal(ch) ==
    IF ch >= 48 /\ ch <= 57 THEN (ch - 48) % 256
    ELSE IF ch >= 97 /\ ch <= 122 THEN (ch - 97 + 10) % 256
    ELSE IF ch >= 65 /\ ch <= 90 THEN (ch - 65 + 10) % 256
    ELSE 0

\* A caller's decoding of a hex string: 16 * high + low for each pair.
RECURSIVE DecodePairs(_)
DecodePairs(h) ==
    IF Len(h) < 2 THEN << >>
    ELSE <<16 * HexDigitToDecimal(h[1]) + HexDigitToDecimal(h[2])>>
           \o DecodePairs(SubSeq(h, 3, Len(h)))

\* The uppercase form of a string.
ToUpper(h) == [j \in 1 .. Len(h) |-> IF h[j] >= 97 /\ h[j] <= 122 THEN h[j] - 32 ELSE h[j]]

\* A call of toHex(c, length) on a whole span.
HexEncode ==
    /\ pc = "idle" /\ op = "none"
    /\ hexText' = ToHexSpan(span, Len(span))
    /\ op' = "toHex"
    /\ UNCHANGED <<drvVars, clock, chanVars, quota, pc, sbVars, stage, tries, ret,
                   result, str, payload, id, pac, rdy, histVars, entryDevice,
                   logVars, span, decoded, decodedUpper, echoVars>>

\* The decoding of the String returned, and of its uppercase form.
HexDecode ==
    /\ pc = "idle" /\ op = "toHex"
    /\ decoded' = DecodePairs(hexText)
    /\ decodedUpper' = DecodePairs(ToUpper(hexText))
    /\ op' = "decode"
    /\ UNCHANGED <<drvVars, clock, chanVars, quota, pc, sbVars, stage, tries, ret,
                   result, str, payload, id, pac, rdy, histVars, entryDevice,
                   logVars, span, hexText, echoVars>>

(***************************************************************************)
(* isReady (Wisol.cpp 395-428).                                            *)
(***************************************************************************)
IsReady(currentTime, last) ==
    IF last = U32Zero THEN TRUE
    ELSE IF U32Le(U32Sub(currentTime, last), U32(SendFloor)) THEN FALSE
    ELSE TRUE

(***************************************************************************)
(* Top-level calls.                                                        *)
(***************************************************************************)
\* What the environment may do during one call of a dispatcher.
DispatchQuota ==
    [bytes |-> CallResp, terms |-> CallTerm, ticks |-> 0, duplex |-> FALSE,
     rx |-> RxBytes]

\* What every top-level call starts with: the locals of the previous call are
\* gone, the channel history of the call is empty.
BeginCall(name, q) ==
    /\ Idle
    /\ calls < MaxCalls
    /\ calls' = calls + 1
    /\ op' = name
    /\ quota' = q
    /\ tx' = << >> /\ polled' = FALSE /\ nOpen' = 0 /\ nClose' = 0
    /\ i' = 0 /\ startTime' = U32Zero /\ sbRet' = FALSE
    /\ rxSeq' = << >> /\ lastTx' = U32Zero
    /\ sinceOk' = <<prevOk[1], U32Sub(clock, prevOk[2])>>
    /\ entryDevice' = device
    /\ logOut' = << >> /\ posReads' = {}
    /\ UNCHANGED <<portOpen, prevOk, hexVars, echoVars>>

\* The arguments of a call of sendBuffer made by a dispatcher.
CallSB(buf, expected, ref) ==
    /\ buffer' = buf
    /\ timeout' = WISOL_COMMAND_TIMEOUT
    /\ expectedMarkerCount' = expected
    /\ amcRef' = ref
    /\ pc' = "call"

\* A direct call of sendBuffer with the caller's own variables, on a driver
\* that has not been used since Init.
CallSendBuffer ==
    \E buf \in Buffers, t \in Timeouts, e \in ExpectedCounts,
       r \in PriorResponses, c \in PriorCounts :
      /\ calls = 0
      /\ BeginCall("sendBuffer",
                   [bytes |-> MaxResp, terms |-> MaxTerm, ticks |-> MaxTicks,
                    duplex |-> TRUE, rx |-> RxBytes])
      /\ buffer' = buf /\ timeout' = t /\ expectedMarkerCount' = e
      /\ amcRef' = "caller" /\ callerAmc' = c
      /\ response' = r
      /\ pc' = "call"
      /\ stage' = 0 /\ tries' = 0 /\ ret' = FALSE /\ result' = << >>
      /\ str' = << >> /\ payload' = << >> /\ id' = << >> /\ pac' = << >>
      /\ rdy' = NoReady
      /\ UNCHANGED <<drvVars, clock>>

\* A direct call of sendBuffer that expects more markers than markerPos holds.
CallSendBufferMany ==
    \E buf \in Buffers, e \in {ManyTerm - 1, ManyTerm},
       r \in PriorResponses, c \in PriorCounts :
      /\ calls = 0
      /\ BeginCall("sendBuffer",
                   [bytes |-> ManyResp, terms |-> ManyTerm, ticks |-> 0,
                    duplex |-> TRUE, rx |-> RxBytes])
      /\ buffer' = buf /\ timeout' = WISOL_COMMAND_TIMEOUT
      /\ expectedMarkerCount' = e
      /\ amcRef' = "caller" /\ callerAmc' = c
      /\ response' = r
      /\ pc' = "call"
      /\ stage' = 0 /\ tries' = 0 /\ ret' = FALSE /\ result' = << >>
      /\ str' = << >> /\ payload' = << >> /\ id' = << >> /\ pac' = << >>
      /\ rdy' = NoReady
      /\ UNCHANGED <<drvVars, clock>>

\* A direct call of sendBuffer for an answer of several lines, by a modem
\* that answers once the command has been written.
CallSendBufferLog ==
    \E buf \in Commands, r \in PriorResponses, c \in PriorCounts :
      /\ calls = 0
      /\ BeginCall("sendBuffer",
                   [bytes |-> LogResp, terms |-> LogTerm, ticks |-> 0,
                    duplex |-> FALSE, rx |-> {79}])
      /\ buffer' = buf /\ timeout' = WISOL_COMMAND_TIMEOUT
      /\ expectedMarkerCount' = LogTerm
      /\ amcRef' = "caller" /\ callerAmc' = c
      /\ response' = r
      /\ pc' = "call"
      /\ stage' = 0 /\ tries' = 0 /\ ret' = FALSE /\ result' = << >>
      /\ str' = << >> /\ payload' = << >> /\ id' = << >> /\ pac' = << >>
      /\ rdy' = NoReady
      /\ UNCHANGED <<drvVars, clock>>

ContinueSendBuffer ==
    /\ UNCHANGED restVars
    /\ pc = "ret"
    /\ op = "sendBuffer"
    /\ ret' = sbRet
    /\ pc' = "done"
    /\ UNCHANGED <<drvVars, clock, chanVars, quota, sbVars, op, stage, tries,
                   result, str, payload, id, pac, rdy, histVars>>

\* sendCommand (370-380): String data; enterCommandMode() is true; sendBuffer.
CallSendCommand ==
    \E cmd \in Commands, e \in {1, 2}, r \in PriorResponses, c \in PriorCounts :
      /\ BeginCall("sendCommand", DispatchQuota)
      /\ CallSB(cmd, e, "caller")
      /\ callerAmc' = c
      /\ result' = r
      /\ response' = << >>
      /\ stage' = 0 /\ tries' = 0 /\ ret' = FALSE
      /\ str' = << >> /\ payload' = << >> /\ id' = << >> /\ pac' = << >>
      /\ rdy' = NoReady
      /\ UNCHANGED <<drvVars, clock>>

\* Lines 376-379: the result is assigned only when sendBuffer succeeded.
CommandResult(ok, old, data) == IF ok THEN data ELSE old

ContinueSendCommand ==
    /\ UNCHANGED restVars
    /\ pc = "ret"
    /\ op = "sendCommand"
    /\ result' = CommandResult(sbRet, result, response)
    /\ ret' = sbRet
    /\ pc' = "done"
    /\ UNCHANGED <<drvVars, clock, chanVars, quota, sbVars, op, stage, tries,
                   str, payload, id, pac, rdy, histVars>>

\* Mutant: the result of isReady() is ignored.
Admitted_Always(ready) == TRUE

\* Line 125: the call goes on only when isReady() allows it.
Admitted(ready) == ready

\* sendMessage (121-131): the duty-cycle check, then the exchange of
\* "AT$SF=" + payload + "\r", one marker expected, counted in markers.
SendMessage(name, p) ==
    /\ BeginCall(name, DispatchQuota)
    /\ payload' = p
    /\ rdy' = [called |-> TRUE, res |-> IsReady(clock, lastSend),
               now |-> clock, last |-> lastSend]
    /\ stage' = 0 /\ tries' = 0 /\ result' = << >> /\ id' = << >> /\ pac' = << >>
    /\ response' = << >>
    /\ ret' = FALSE
    /\ IF Admitted(rdy'.res)
       THEN CallSB(CMD_SEND_MESSAGE \o p \o CMD_END, 1, "markers")
       ELSE /\ pc' = "done"
            /\ buffer' = << >> /\ timeout' = 0 /\ expectedMarkerCount' = 0
            /\ amcRef' = "markers"
    /\ UNCHANGED <<drvVars, clock, callerAmc>>

CallSendMessage ==
    \E p \in Payloads : SendMessage("sendMessage", p) /\ str' = << >>

\* sendString (382-393): encode, then sendMessage.
CallSendString ==
    \E s \in Texts : SendMessage("sendString", EncodeString(s)) /\ str' = s

\* Mutant: lastSend is set whatever the exchange returned.
StampsLastSend_Always(ok) == TRUE

\* Lines 131-136: lastSend is set when the exchange succeeded.
StampsLastSend(ok) == ok

ContinueSendMessage ==
    /\ UNCHANGED restVars
    /\ pc = "ret"
    /\ op \in {"sendMessage", "sendString"}
    /\ IF StampsLastSend(sbRet)
       THEN lastSend' = clock /\ prevOk' = <<TRUE, clock>>
       ELSE UNCHANGED <<lastSend, prevOk>>
    /\ ret' = sbRet
    /\ pc' = "done"
    /\ UNCHANGED <<useEmulator, device, markers, markerPos, clock, chanVars,
                   quota, sbVars, op, stage, tries, result, str, payload, id, pac,
                   rdy, rxSeq, lastTx, calls, sinceOk>>

\* Lines 156-157 of getID: the identifier read becomes the device.
StoresDevice(ok, queryNo) == ok /\ queryNo = 1

\* getID (151-162): in emulator mode id is the device; otherwise the ID query.
GetID(name, q) ==
    /\ BeginCall(name, q)
    /\ tries' = 0 /\ str' = << >> /\ payload' = << >> /\ pac' = << >>
    /\ rdy' = NoReady
    /\ result' = << >> /\ response' = << >>
    /\ IF useEmulator
       THEN /\ id' = device
            /\ ret' = TRUE
            /\ pc' = "done"
            /\ stage' = 0
            /\ buffer' = << >> /\ timeout' = 0 /\ expectedMarkerCount' = 0
            /\ amcRef' = "markers"
       ELSE /\ id' = << >>
            /\ ret' = FALSE
            /\ stage' = 1
            /\ CallSB(CMD_GET_ID \o CMD_END, 1, "markers")
    /\ UNCHANGED <<useEmulator, device, markers, markerPos, callerAmc>>

CallGetID == GetID("getID", DispatchQuota) /\ UNCHANGED <<lastSend, clock>>

\* begin (319-368): lastSend is cleared; each round waits, then reads the ID
\* and the PAC; the steps after getID always succeed.
CallBegin ==
    /\ GetID("begin", DispatchQuota)
    /\ lastSend' = U32Zero
    /\ clock' = U32Add(clock, BeginDelay)

\* The return of a query of getID: after the ID query the PAC query follows;
\* a failed query ends getID, and begin then starts its next round, if any.
ContinueGetID ==
    /\ UNCHANGED restVars
    /\ pc = "ret"
    /\ op \in {"getID", "begin"}
    /\ LET retry == ~sbRet /\ op = "begin" /\ tries + 1 < BeginRetries
           second == sbRet /\ stage = 1
           finish == ~retry /\ ~second
       IN  /\ device' = IF StoresDevice(sbRet, stage) THEN response ELSE device
           /\ result' = IF sbRet THEN response ELSE IF retry THEN << >> ELSE result
           /\ id' = IF second THEN response ELSE IF retry THEN << >> ELSE id
           /\ pac' = IF sbRet /\ stage = 2 THEN response
                     ELSE IF retry THEN << >> ELSE pac
           /\ stage' = IF second THEN 2 ELSE IF retry THEN 1 ELSE stage
           /\ tries' = IF retry THEN tries + 1 ELSE tries
           /\ clock' = IF retry THEN U32Add(clock, BeginDelay) ELSE clock
           /\ ret' = IF finish THEN sbRet ELSE ret
           /\ pc' = IF finish THEN "done" ELSE "call"
           /\ buffer' = IF second THEN CMD_GET_PAC \o CMD_END
                        ELSE IF retry THEN CMD_GET_ID \o CMD_END ELSE buffer
           /\ response' = IF finish THEN response ELSE << >>
    /\ UNCHANGED <<useEmulator, lastSend, markers, markerPos, chanVars, quota,
                   timeout, expectedMarkerCount, amcRef, callerAmc, i, startTime,
                   sbRet, op, str, payload, rdy, histVars>>

\* What a call of echoOn, echoOff or setEchoPort leaves alone.
EchoCall(name) ==
    /\ Idle
    /\ calls < EchoCalls
    /\ calls' = calls + 1
    /\ op' = name
    /\ pc' = "done"
    /\ UNCHANGED <<drvVars, clock, chanVars, quota, sbVars, stage, tries, ret,
                   result, str, payload, id, pac, rdy, rxSeq, lastTx, prevOk,
                   sinceOk, entryDevice, logVars, hexVars>>

\* echoOn (438-442).
CallEchoOn ==
    /\ EchoCall("echoOn")
    /\ echoPort' = lastEchoPort
    /\ UNCHANGED <<lastEchoPort, portBeforeOff>>

\* echoOff (444-447).
CallEchoOff ==
    /\ EchoCall("echoOff")
    /\ lastEchoPort' = echoPort
    /\ echoPort' = nullPort
    /\ portBeforeOff' = IF echoPort # nullPort THEN echoPort ELSE portBeforeOff

\* setEchoPort (449-453), with a real port.
CallSetEchoPort ==
    \E port \in RealPorts :
      /\ EchoCall("setEchoPort")
      /\ lastEchoPort' = echoPort
      /\ echoPort' = port
      /\ UNCHANGED portBeforeOff

\* A call of isReady by the application.
CallIsReady ==
    /\ BeginCall("isReady", DispatchQuota)
    /\ rdy' = [called |-> TRUE, res |-> IsReady(clock, lastSend),
               now |-> clock, last |-> lastSend]
    /\ ret' = rdy'.res
    /\ pc' = "done"
    /\ stage' = 0 /\ tries' = 0 /\ result' = << >> /\ str' = << >>
    /\ payload' = << >> /\ id' = << >> /\ pac' = << >> /\ response' = << >>
    /\ buffer' = << >> /\ timeout' = 0 /\ expectedMarkerCount' = 0
    /\ amcRef' = "markers"
    /\ UNCHANGED <<drvVars, clock, callerAmc>>

\* Time passing between two calls.
IdleWait ==
    /\ UNCHANGED restVars
    /\ pc = "done"
    /\ calls < MaxCalls
    /\ \E d \in IdleGaps : clock' = U32Add(clock, d)
    /\ pc' = "idle"
    /\ UNCHANGED <<drvVars, chanVars, quota, sbVars, callVars, histVars>>

\* The steps of sendBuffer and of the clock while it runs.
SB_Step == SB_Enter \/ SB_Write \/ SB_NoWrite \/ SB_Receive \/ SB_Exit

(***************************************************************************)
(* Spec: the dispatchers, called in any order.                             *)
(***************************************************************************)
Next ==
    \/ CallSendCommand
    \/ CallSendMessage
    \/ CallSendString
    \/ CallIsReady
    \/ CallGetID
    \/ CallBegin
    \/ SB_Enter
    \/ SB_Write
    \/ SB_NoWrite
    \/ Tick
    \/ SB_Receive
    \/ SB_Exit
    \/ ContinueSendCommand
    \/ ContinueSendMessage
    \/ ContinueGetID
    \/ IdleWait

Spec == Init /\ [][Next]_vars

(***************************************************************************)
(* SendSpec: the send path alone (sendCommand, sendMessage, sendString,    *)
(* isReady), without the bring-up calls.                                   *)
(***************************************************************************)
SendNext ==
    \/ CallSendCommand
    \/ CallSendMessage
    \/ CallSendString
    \/ CallIsReady
    \/ SB_Enter
    \/ SB_Write
    \/ SB_NoWrite
    \/ Tick
    \/ SB_Receive
    \/ SB_Exit
    \/ ContinueSendCommand
    \/ ContinueSendMessage
    \/ IdleWait

SendSpec == Init /\ [][SendNext]_vars

(***************************************************************************)
(* ExchangeSpec: one direct call of sendBuffer.                            *)
(***************************************************************************)
ExchangeNext ==
    \/ CallSendBuffer
    \/ SB_Enter
    \/ SB_Write
    \/ SB_NoWrite
    \/ Tick
    \/ SB_Receive
    \/ SB_Exit
    \/ ContinueSendBuffer

ExchangeSpec == Init /\ [][ExchangeNext]_vars

(***************************************************************************)
(* CapacitySpec: one direct call of sendBuffer answered with more          *)
(* terminators than markerPos has entries.                                 *)
(***************************************************************************)
CapacityNext ==
    \/ CallSendBufferMany
    \/ SB_Enter
    \/ SB_Write
    \/ SB_NoWrite
    \/ Tick
    \/ SB_Receive
    \/ SB_Exit
    \/ ContinueSendBuffer

CapacitySpec == Init /\ [][CapacityNext]_vars

(***************************************************************************)
(* LogSpec: one direct call of sendBuffer answered with several lines.     *)
(***************************************************************************)
LogNext ==
    \/ CallSendBufferLog
    \/ SB_Enter
    \/ SB_Write
    \/ SB_NoWrite
    \/ Tick
    \/ SB_Receive
    \/ SB_Exit
    \/ ContinueSendBuffer

LogSpec == Init /\ [][LogNext]_vars

(***************************************************************************)
(* EchoSpec: echoOn, echoOff and setEchoPort called in any order on a      *)
(* driver constructed with or without echo.                                *)
(***************************************************************************)
EchoInit == InitDriver /\ span = << >>

EchoNext ==
    \/ CallEchoOn
    \/ CallEchoOff
    \/ CallSetEchoPort

EchoSpec == EchoInit /\ [][EchoNext]_vars

(***************************************************************************)
(* HexSpec: toHex(char *, int) applied to a span, and the result decoded.  *)
(***************************************************************************)
HexInit ==
    /\ InitDriver /\ ~useEmulator /\ clock = U32Zero /\ echoPort = "Serial"
    /\ span \in Spans

HexNext ==
    \/ HexEncode
    \/ HexDecode

HexSpec == HexInit /\ [][HexNext]_vars

\* ExchangeSpec with a processor that keeps running the loop (weak fairness
\* of its steps) and a clock that keeps advancing whatever the loop is doing
\* (strong fairness of Tick, which the model lets happen between iterations).
FairExchangeSpec == ExchangeSpec /\ WF_vars(SB_Step) /\ SF_vars(Tick)

(***************************************************************************)
(* Properties.                                                             *)
(***************************************************************************)
SendMessageOps == {"sendMessage", "sendString"}
\* sendBuffer has returned from a real exchange.
Returned == pc = "ret" /\ ~useEmulator
\* Every byte the channel delivered during the exchange was a terminator.
OnlyMarkers == \A j \in 1 .. Len(rxSeq) : rxSeq[j] = END_OF_RESPONSE
\* The time since the last successful sendMessage, read by isReady.
ReadyElapsed == U32Sub(rdy.now, rdy.last)

\* C1: when the channel has delivered exactly k terminators and nothing else,
\* a call expecting k returns true with actualMarkerCount = k, and a call
\* expecting k + 1 returns false, by timeout, with actualMarkerCount = k.
C1_MarkerCount ==
    (Returned /\ OnlyMarkers) =>
        /\ (expectedMarkerCount = Len(rxSeq) => sbRet /\ Amc = Len(rxSeq))
        /\ (expectedMarkerCount = Len(rxSeq) + 1 =>
                /\ ~sbRet
                /\ Amc = Len(rxSeq)
                /\ TimedOut(clock, startTime, timeout))
C1_Witness ==
    /\ Returned /\ OnlyMarkers
    /\ Len(rxSeq) = 2 /\ expectedMarkerCount = 3 /\ ~sbRet

\* C2 as claimed: in every mode sendBuffer returns true exactly when the
\* actualMarkerCount it reports is at least expectedMarkerCount.
C2_Original ==
    pc = "ret" => (sbRet <=> Amc >= expectedMarkerCount)
\* C2 amended: that equivalence holds of every call that is not in emulator
\* mode; in emulator mode sendBuffer returns true, also when the count it
\* reports is below expectedMarkerCount.
C2_Amended ==
    pc = "ret" =>
        IF useEmulator THEN sbRet ELSE (sbRet <=> Amc >= expectedMarkerCount)
C2_Witness ==
    Returned /\ ~sbRet /\ Amc = 1 /\ expectedMarkerCount = 2

\* C3 as claimed: a sendMessage that returns true did not start less than
\* the floor after the previous successful sendMessage.
C3_FloorBetweenSends ==
    (pc = "done" /\ op \in SendMessageOps /\ ret /\ sinceOk[1]) =>
        ~U32Le(sinceOk[2], U32(SendFloor - 1))

\* C4 as claimed: isReady returns false only after a send and less than the
\* floor after it, and true for every other elapsed time, the floor included.
C4_IsReady ==
    rdy.called =>
        /\ (~rdy.res => sinceOk[1] /\ U32Le(ReadyElapsed, U32(SendFloor - 1)))
        /\ (~U32Le(ReadyElapsed, U32(SendFloor - 1)) => rdy.res)

\* C5: a sendMessage that returns false has left lastSend as it was at entry;
\* one that returns true has set it to the current time.
C5_LastSend ==
    (op \in SendMessageOps /\ pc # "idle") =>
        IF pc = "done" /\ ret THEN lastSend = clock ELSE lastSend = rdy.last
C5_Witness ==
    /\ op = "sendMessage" /\ pc = "done" /\ ~ret
    /\ rdy.res /\ lastSend # U32Zero

\* C6: a sendMessage rejected by isReady returns false and has not opened,
\* written to, read from or closed the channel.
C6_RejectedUntouched ==
    (op \in SendMessageOps /\ rdy.called /\ ~rdy.res) =>
        /\ pc \in {"done", "idle"} /\ ~ret
        /\ tx = << >> /\ ~polled /\ nOpen = 0 /\ nClose = 0 /\ ~portOpen
C6_Witness ==
    op = "sendMessage" /\ pc = "done" /\ rdy.called /\ ~rdy.res /\ ~ret

C8_Terminates == (pc = "call") ~> (pc = "ret")
C8_Witness ==
    /\ Returned /\ ~sbRet /\ polled
    /\ Len(response) = MaxResp /\ Len(rxSeq) = MaxResp

\* C9 as claimed: when sendCommand returns false, the caller's result is the
\* response captured during the exchange.
C9_FailedResult ==
    (pc = "done" /\ op = "sendCommand" /\ ~ret) => result = response

\* C10 as claimed: the payload sendString hands to sendMessage, and the frame
\* built from it, never carry more than 24 hex characters.
C10_PayloadLimit ==
    op = "sendString" =>
        /\ Len(payload) <= 24
        /\ Len(buffer) <= Len(CMD_SEND_MESSAGE) + 24 + Len(CMD_END)

\* The lowercase hex digit of d (0..15), and the two digits of every
\* character of a text, in order.
LowerHex(d) == IF d < 10 THEN 48 + d ELSE 87 + d
RECURSIVE HexPairs(_)
HexPairs(s) ==
    IF s = << >> THEN << >>
    ELSE <<LowerHex(Head(s) \div 16), LowerHex(Head(s) % 16)>> \o HexPairs(Tail(s))
Frame(s) == CMD_SEND_MESSAGE \o HexPairs(s) \o CMD_END

C11_WitnessBytes ==
    /\ op = "sendString" /\ ~useEmulator /\ pc = "done" /\ ret
    /\ Len(str) = 12 /\ Len(tx) = 31
\* The number of entries of markerPos written by the exchange.
Recorded == IF Amc < markerPosMax THEN Amc ELSE markerPosMax

\* C12 as claimed: after an exchange the recorded marker positions are
\* strictly increasing and none is beyond the length of the response.
C12_StrictlyIncreasing ==
    Returned =>
        /\ \A k \in 0 .. (Recorded - 1) : markerPos[k] <= Len(response)
        /\ \A k \in 1 .. (Recorded - 1) : markerPos[k] > markerPos[k - 1]
\* The offset in the response at which the k-th terminator of seq arrived: the
\* number of bytes that had gone into the response before it.
RECURSIVE OffsetOfTerminator(_, _)
OffsetOfTerminator(seq, k) ==
    IF seq = << >> THEN 0
    ELSE IF Head(seq) = END_OF_RESPONSE
         THEN (IF k = 1 THEN 0 ELSE OffsetOfTerminator(Tail(seq), k - 1))
         ELSE Len(ConcatChar(<< >>, Head(seq))) + OffsetOfTerminator(Tail(seq), k)
Terminators(seq) == Cardinality({j \in 1 .. Len(seq) : seq[j] = END_OF_RESPONSE})

\* C13: markerPos never has an entry at an index >= markerPosMax; an exchange
\* that has read n > markerPosMax terminators and expected n returns true with
\* actualMarkerCount = n, and markerPos holds the positions of the first
\* markerPosMax terminators.
C13_Capacity ==
    /\ DOMAIN markerPos = 0 .. (markerPosMax - 1)
    /\ (Returned /\ Terminators(rxSeq) > markerPosMax
           /\ expectedMarkerCount = Terminators(rxSeq)) =>
          /\ sbRet
          /\ Amc = Terminators(rxSeq)
          /\ \A k \in 1 .. markerPosMax :
                markerPos[k - 1] = OffsetOfTerminator(rxSeq, k)
C13_Witness ==
    /\ Returned /\ sbRet /\ expectedMarkerCount = 7 /\ Amc = 7
    /\ Terminators(rxSeq) = 7 /\ Len(response) = 1 /\ markerPos[4] = 1
LowerHexDigits == (48 .. 57) \cup (97 .. 102)

\* C14: toHex(b, length) is 2 * length lowercase hex characters; decoding its
\* pairs with hexDigitToDecimal as 16 * high + low gives b back, and so does
\* decoding the uppercase form.
C14_HexRoundTrip ==
    /\ op \in {"toHex", "decode"} =>
          /\ Len(hexText) = 2 * Len(span)
          /\ \A j \in 1 .. Len(hexText) : hexText[j] \in LowerHexDigits
    /\ op = "decode" => decoded = span /\ decodedUpper = span
C14_Witness ==
    /\ op = "decode" /\ span = <<10, 255>>
    /\ hexText = <<48, 97, 102, 102>> /\ decodedUpper = span
\* C15 as claimed: a real exchange consumes no terminator while bytes of the
\* buffer are unsent, and when sendBuffer returns the bytes written are the
\* buffer, each byte once and in order.
C15_AllWritten ==
    ~useEmulator =>
        /\ (pc \in {"loop", "recv", "end"} /\ Terminators(rxSeq) > 0
               => i = Len(buffer))
        /\ (pc = "ret" => tx = buffer)
\* C16 as claimed: a getID that returns false has left the device identifier
\* as it was when the call began.
C16_FailedGetID ==
    (op = "getID" /\ pc = "done" /\ ~ret) => device = entryDevice
IsNotTerminator(b) == b # END_OF_RESPONSE

\* C17 as claimed: throughout a real exchange and on its return, the response
\* is the sequence of the bytes read that are not terminators, in order.
C17_ResponseExact ==
    (~useEmulator /\ pc \in {"loop", "recv", "end", "ret"}) =>
        response = SelectSeq(rxSeq, IsNotTerminator)
\* C18: a call of sendBuffer in emulator mode does nothing on the channel; a
\* real one has opened the channel once before it writes or polls, keeps it
\* open during the exchange, and has closed it once when it returns, whether
\* the markers were seen or not; between exchanges the channel is closed.
C18_OpenClose ==
    /\ (tx # << >> \/ polled) => nOpen = 1
    /\ pc \in {"loop", "recv", "end"} =>
          ~useEmulator /\ portOpen /\ nOpen = 1 /\ nClose = 0
    /\ pc \in {"idle", "call", "done"} => ~portOpen /\ nOpen = nClose
    /\ pc = "ret" =>
          /\ ~portOpen
          /\ IF useEmulator
             THEN nOpen = 0 /\ nClose = 0 /\ tx = << >> /\ ~polled
             ELSE nOpen = 1 /\ nClose = 1
C18_Witness ==
    /\ calls = 2 /\ op = "sendCommand" /\ pc = "ret" /\ ~useEmulator /\ ~sbRet
    /\ nOpen = 1 /\ nClose = 1 /\ ~portOpen /\ polled
\* The markers recorded at offset k, and the log of a response in which every
\* recorded position has its marker, from offset k on.
RECURSIVE MarkersAt(_, _, _)
MarkersAt(pos, n, k) ==
    IF n = 0 THEN << >>
    ELSE MarkersAt(pos, n - 1, k) \o (IF pos[n - 1] = k THEN MarkerText ELSE << >>)
RECURSIVE MarkedFrom(_, _, _, _)
MarkedFrom(buf, pos, n, k) ==
    MarkersAt(pos, n, k)
      \o (IF k < Len(buf) THEN <<buf[k + 1]>> \o MarkedFrom(buf, pos, n, k + 1)
          ELSE << >>)

\* C19 as claimed: the log of the response of an exchange is the response with
\* one "0x0d" inserted at each recorded marker position, whatever the
\* positions are (the NUL that ends a response of odd length may follow).
C19_LogMarkers ==
    Returned =>
        \E pad \in {<< >>, <<0>>} :
            logOut = MarkedFrom(response, markerPos, Recorded, 0) \o pad \o <<10>>

\* C20 as claimed: logBuffer reads markerPos only at indexes below
\* markerPosMax.
C20_ReadsInBounds ==
    \A m \in posReads : m < markerPosMax
\* C21 as claimed: when echoOn has returned, echoPort is not the null port,
\* and it is the real port that the last echoOff turned off, if there was one.
C21_EchoOnRestores ==
    op = "echoOn" =>
        /\ echoPort # nullPort
        /\ (portBeforeOff # "none" => echoPort = portBeforeOff)
====
